---- MODULE Spec2Model ----
(***************************************************************************)
(* A model of fetch_and_commit.py, the EPG updater: it fetches the         *)
(* configured XMLTV feeds concurrently, groups them by a signature of      *)
(* their icon URLs, builds a pool of icon files, rewrites the icon         *)
(* references of every feed and publishes the feeds with a report.         *)
(*                                                                         *)
(* Strings that the program takes apart or concatenates (icon URLs, hash   *)
(* inputs, paths) are sequences of one-character strings.  sha256 and sha1 *)
(* are modelled as injective taggings of their input.                      *)
(***************************************************************************)
EXTENDS Integers, Sequences, FiniteSets, TLC

\* ------------------------------------------------------------------ bounds
\* Longest document, in elements, that FeedSpec lets the feed serve.
MaxElems == 3

\* ------------------------------------------------------- program constants
\* `if count > 10000: break` of get_icon_signature_fast.  The source's 10000
\* is scaled down so that a feed of a few elements exceeds it.
SIG_ICON_LIMIT == 1
\* `if count > 5000 ...: break` of perform_full_update's channel scan, scaled
\* down likewise.
CHANNEL_LIMIT == 1

\* ----------------------------------------------------------------- strings
\* Code-point order of the characters that occur in icon URLs.
CharOrd(c) == IF c = "a" THEN 1 ELSE IF c = "b" THEN 2 ELSE 3

\* Python's str.__lt__: lexicographic, a proper prefix is smaller.
RECURSIVE LexLess(_, _)
LexLess(s, t) ==
    IF s = <<>> THEN t # <<>>
    ELSE IF t = <<>> THEN FALSE
    ELSE IF Head(s) = Head(t) THEN LexLess(Tail(s), Tail(t))
    ELSE CharOrd(Head(s)) < CharOrd(Head(t))

MinStr(S) == CHOOSE s \in S : \A t \in S \ {s} : LexLess(s, t)

\* sorted(list(icon_urls))
RECURSIVE SortedUrls(_)
SortedUrls(S) ==
    IF S = {} THEN <<>> ELSE <<MinStr(S)>> \o SortedUrls(S \ {MinStr(S)})

\* ''.join(sorted_urls): concatenation with no separator.
RECURSIVE JoinUrls(_)
JoinUrls(ss) == IF ss = <<>> THEN <<>> ELSE Head(ss) \o JoinUrls(Tail(ss))

\* hashlib.sha256(...).hexdigest(): injective, and never Python's None.
Sha256(s) == <<"sha256:">> \o s

\* Python's None, as a signature.
None == <<"None">>

\* ------------------------------------------------------------------- feeds
\* A feed file is [gz, form, elems].  form is "ok", "truncated" (the
\* document breaks off after its last element) or "garbage" (no XML at
\* all).  An element is [kind, id, icon, nested]: kind "channel" or
\* "programme", id the id attribute ("" when absent), icon the src of its
\* first icon child, NoSrc for an icon child without src, NoIcon for no icon
\* child; nested tells an element that is not a child of the root.
NoIcon == <<"<no icon>">>
NoSrc == <<"<no src>">>

Prefix(s, n) == SubSeq(s, 1, IF Len(s) < n THEN Len(s) ELSE n)

HasIcon(e) == e.icon # NoIcon
HasSrc(e) == e.icon # NoIcon /\ e.icon # NoSrc

\* The icon elements of the document, in document order.
IconElems(feed) == SelectSeq(feed.elems, HasIcon)

\* The set of distinct src values of all icon elements of the feed.
IconSrcSet(feed) == {feed.elems[i].icon : i \in {j \in DOMAIN feed.elems : HasSrc(feed.elems[j])}}

\* get_icon_signature_fast: the icon elements are streamed; the scan stops
\* at the element after the first SIG_ICON_LIMIT + 1; a parse error (raised
\* where the document breaks off, if the scan gets there) gives None; so do
\* no src values at all.  The timeout flag the scan polls is never set while
\* feeds are signed: the alarm is armed only for the icon downloads.
\* Mutant: the src values are joined as they are met, unsorted and repeated.
GetIconSignatureFast_DocumentOrder(feed) ==
    LET icons == IconElems(feed)
        scanned == SelectSeq(Prefix(icons, SIG_ICON_LIMIT + 1), HasSrc)
        raised == \/ feed.form = "garbage"
                  \/ feed.form = "truncated" /\ Len(icons) <= SIG_ICON_LIMIT + 1
    IN  IF raised \/ scanned = <<>> THEN None
        ELSE Sha256(JoinUrls([k \in DOMAIN scanned |-> scanned[k].icon]))

GetIconSignatureFast(feed) ==
    LET icons == IconElems(feed)
        scanned == Prefix(icons, SIG_ICON_LIMIT + 1)
        icon_urls == {scanned[i].icon : i \in {j \in DOMAIN scanned : HasSrc(scanned[j])}}
        raised == \/ feed.form = "garbage"
                  \/ feed.form = "truncated" /\ Len(icons) <= SIG_ICON_LIMIT + 1
    IN  IF raised \/ icon_urls = {} THEN None
        ELSE Sha256(JoinUrls(SortedUrls(icon_urls)))

\* iterparse(f, tag='channel') meets the channel elements at any depth;
\* root.findall('channel') finds those that are children of the root.
IsChannel(e) == e.kind = "channel"
IsRootChannel(e) == e.kind = "channel" /\ ~e.nested

\* dict[key] = value
Put(d, k, v) == [x \in DOMAIN d \cup {k} |-> IF x = k THEN v ELSE d[x]]

MaxOf(S) == CHOOSE n \in S : \A m \in S : m <= n

\* The channel scan of perform_full_update for a group's representative
\* file: channels are streamed, the scan stops at the element after the
\* first CHANNEL_LIMIT + 1, every channel with a non-empty id and an icon
\* child with src sets icon_map[id] (a later channel overwrites an earlier
\* one) and adds its URL to all_unique_urls.  A parse error abandons the
\* group (`continue`), but the URLs already added stay in all_unique_urls.
\* The timeout flag polled here is never set before the icon downloads.
\* Mutant: the first channel of an id keeps its entry.
BuildIconMap_FirstWins(feed) ==
    LET chans == SelectSeq(feed.elems, IsChannel)
        scanned == Prefix(chans, CHANNEL_LIMIT + 1)
        good == {j \in DOMAIN scanned : scanned[j].id # "" /\ HasSrc(scanned[j])}
        ids == {scanned[j].id : j \in good}
    IN  [raised |-> \/ feed.form = "garbage"
                    \/ feed.form = "truncated" /\ Len(chans) <= CHANNEL_LIMIT + 1,
         icon_map |-> [c \in ids |->
                         scanned[CHOOSE j \in good :
                                    /\ scanned[j].id = c
                                    /\ \A k \in good : scanned[k].id = c => j <= k].icon],
         urls |-> {scanned[j].icon : j \in good}]

BuildIconMap(feed) ==
    LET chans == SelectSeq(feed.elems, IsChannel)
        scanned == Prefix(chans, CHANNEL_LIMIT + 1)
        good == {j \in DOMAIN scanned : scanned[j].id # "" /\ HasSrc(scanned[j])}
        ids == {scanned[j].id : j \in good}
    IN  [raised |-> \/ feed.form = "garbage"
                    \/ feed.form = "truncated" /\ Len(chans) <= CHANNEL_LIMIT + 1,
         icon_map |-> [c \in ids |-> scanned[MaxOf({j \in good : scanned[j].id = c})].icon],
         urls |-> {scanned[j].icon : j \in good}]

\* ------------------------------------------------------------------- paths
\* A Path is the sequence of its components, each a string.
ICONS_DIR == << <<"icons">> >>

\* hashlib.sha1(url).hexdigest(): injective.
Sha1(url) == <<"sha1:">> \o url

\* "".join(Path(urlparse(url).path).suffixes) or ".png": the URLs of the
\* model carry no dot, so the extension is the default.
OriginalExt(url) == <<".png">>

\* icon_pool_dir / f"{url_hash}{original_ext}"
PoolPath(url) == ICONS_DIR \o << <<"pool">>, Sha1(url) \o OriginalExt(url) >>

\* str(path): the components joined by the separator.
RECURSIVE PathStr(_)
PathStr(p) ==
    IF Len(p) = 0 THEN <<>>
    ELSE IF Len(p) = 1 THEN p[1]
    ELSE p[1] \o <<"/">> \o PathStr(Tail(p))

\* s.replace('\\', '/')
ReplaceBackslash(s) == [i \in DOMAIN s |-> IF s[i] = "\\" THEN "/" ELSE s[i]]

\* Path(s): the string split at the separators.
RECURSIVE SplitPath(_, _)
SplitPath(s, cur) ==
    IF s = <<>> THEN (IF cur = <<>> THEN <<>> ELSE <<cur>>)
    ELSE IF Head(s) = "/"
         THEN (IF cur = <<>> THEN <<>> ELSE <<cur>>) \o SplitPath(Tail(s), <<>>)
         ELSE SplitPath(Tail(s), Append(cur, Head(s)))

PathOf(s) == SplitPath(s, <<>>)

\* RAW_BASE_URL.format(owner=, repo=, filepath=str(path).replace('\\', '/'))
RawUrl(path) ==
    <<"https://raw.githubusercontent.com/", "owner", "/", "repo", "/main/">>
        \o ReplaceBackslash(PathStr(path))

\* ---------------------------------------------------------------- rewriter
\* process_epg_file on the file `feed`, with the files of pool_files on
\* disk.  Returns [ok, changes, written, file]: file is the content of the
\* path afterwards.  The lenient parser recovers the elements of a
\* truncated document; a document with no root raises, which returns False.
\* Mutant: the pool path is not asked whether it exists.
NewIcon_NoExists(e, group_map, icon_pool, pool_files) ==
    IF /\ IsRootChannel(e)
       /\ e.id \in DOMAIN group_map
       /\ group_map[e.id] \in DOMAIN icon_pool
    THEN RawUrl(icon_pool[group_map[e.id]])
    ELSE e.icon

NewIcon(e, group_map, icon_pool, pool_files) ==
    IF /\ IsRootChannel(e)
       /\ e.id \in DOMAIN group_map
       /\ group_map[e.id] \in DOMAIN icon_pool
       /\ icon_pool[group_map[e.id]] \in pool_files
    THEN RawUrl(icon_pool[group_map[e.id]])
    ELSE e.icon

\* Mutant: the src is set, and counted, without being compared first.
ProcessEpgFile_AlwaysSet(feed, group_map, icon_pool, pool_files, timeout) ==
    IF DOMAIN group_map = {} \/ DOMAIN icon_pool = {}
    THEN [ok |-> TRUE, changes |-> 0, written |-> FALSE, file |-> feed]
    ELSE IF feed.form = "garbage"
    THEN [ok |-> FALSE, changes |-> 0, written |-> FALSE, file |-> feed]
    ELSE
        LET new_elems == [i \in DOMAIN feed.elems |->
                            [feed.elems[i] EXCEPT
                                !.icon = NewIcon(feed.elems[i], group_map, icon_pool, pool_files)]]
            changes_made == Cardinality({i \in DOMAIN feed.elems :
                                /\ IsRootChannel(feed.elems[i])
                                /\ feed.elems[i].id \in DOMAIN group_map
                                /\ group_map[feed.elems[i].id] \in DOMAIN icon_pool
                                /\ icon_pool[group_map[feed.elems[i].id]] \in pool_files})
        IN  [ok |-> TRUE,
             changes |-> changes_made,
             written |-> changes_made > 0,
             file |-> IF changes_made > 0
                      THEN [gz |-> feed.gz, form |-> "ok", elems |-> new_elems]
                      ELSE feed]

ProcessEpgFile(feed, group_map, icon_pool, pool_files, timeout) ==
    IF DOMAIN group_map = {} \/ DOMAIN icon_pool = {}
    THEN [ok |-> TRUE, changes |-> 0, written |-> FALSE, file |-> feed]
    ELSE IF feed.form = "garbage"
    THEN [ok |-> FALSE, changes |-> 0, written |-> FALSE, file |-> feed]
    ELSE
        LET new_elems == [i \in DOMAIN feed.elems |->
                            IF timeout THEN feed.elems[i]
                            ELSE [feed.elems[i] EXCEPT
                                    !.icon = NewIcon(feed.elems[i], group_map, icon_pool, pool_files)]]
            changes_made == Cardinality({i \in DOMAIN feed.elems : new_elems[i] # feed.elems[i]})
        IN  [ok |-> TRUE,
             changes |-> changes_made,
             written |-> changes_made > 0,
             file |-> IF changes_made > 0
                      THEN [gz |-> feed.gz, form |-> "ok", elems |-> new_elems]
                      ELSE feed]

\* ---------------------------------------------------------------- icon map
\* json.dump(icon_data, cls=CustomEncoder): a Path value is written as
\* str(path).replace('\\', '/'); None is written as null.
\* Mutant: the entries whose value is None are not written.
EncodeIconData_DropsNone(icon_data) ==
    [icon_pool |-> [u \in DOMAIN icon_data.icon_pool |->
                        ReplaceBackslash(PathStr(icon_data.icon_pool[u]))],
     groups |-> icon_data.groups,
     source_to_group |->
        [url \in {u \in DOMAIN icon_data.source_to_group :
                      icon_data.source_to_group[u] # None} |->
            icon_data.source_to_group[url]]]

EncodeIconData(icon_data) ==
    [icon_pool |-> [u \in DOMAIN icon_data.icon_pool |->
                        ReplaceBackslash(PathStr(icon_data.icon_pool[u]))],
     groups |-> icon_data.groups,
     source_to_group |-> icon_data.source_to_group]

\* json.load, then, if the document has an icon_pool, its values rehydrated
\* with Path(v); the other fields are taken as they are, present or not.
DecodeIconData(doc) ==
    IF "icon_pool" \in DOMAIN doc
    THEN [doc EXCEPT !.icon_pool = [u \in DOMAIN @ |-> PathOf(@[u])]]
    ELSE doc

\* A JSON document with the field `name` left out.
WithoutField(doc, name) == [f \in DOMAIN doc \ {name} |-> doc[f]]
MapFields == {"icon_pool", "groups", "source_to_group"}

\* load_icon_data_for_daily_update: None when the file is missing or is no
\* JSON; otherwise the decoded document.
MapAbsent == [kind |-> "absent"]
MapCorrupt == [kind |-> "corrupt"]
NoIconData == [kind |-> "None"]

LoadIconData(map_file) ==
    IF map_file = MapAbsent \/ map_file = MapCorrupt THEN NoIconData
    ELSE DecodeIconData(map_file)

\* ------------------------------------------------------- building the map
\* The icon data stage 2 builds from the results without error, res (each
\* [url, file], in completion order), and their signatures sg.  A group's
\* representative is its first result; a group whose representative fails
\* to parse is left out, and so are the source_to_group entries of its
\* members; the members of the None group are mapped to None.  All the
\* results of one URL carry the same signature, so the entry of a URL is
\* that of its last result.
InGroup(sg, s) == {p \in DOMAIN sg : sg[p] = s}
MinOf(S) == CHOOSE n \in S : \A m \in S : n <= m
GroupScan(res, sg, s) == BuildIconMap(res[MinOf(InGroup(sg, s))].file)
Signatures(sg) == {sg[p] : p \in DOMAIN sg}
KeptGroups(res, sg) == {s \in Signatures(sg) \ {None} : ~GroupScan(res, sg, s).raised}
\* Mutant: all_unique_urls is emptied for every group, so that it ends with
\* the URLs of the group met last.
AllUniqueUrls_LastGroup(res, sg) ==
    LET sigs == Signatures(sg) \ {None}
    IN  IF sigs = {} THEN {}
        ELSE LET last == CHOOSE s \in sigs :
                            \A t \in sigs : MinOf(InGroup(sg, t)) <= MinOf(InGroup(sg, s))
             IN  GroupScan(res, sg, last).urls

AllUniqueUrls(res, sg) == UNION {GroupScan(res, sg, s).urls : s \in Signatures(sg) \ {None}}

\* Mutant: only the representative of a group gets its source_to_group entry.
IconDataFrom_RepresentativeOnly(res, sg) ==
    LET kept == KeptGroups(res, sg)
        mapped == {p \in DOMAIN sg : sg[p] = None \/ sg[p] \in kept}
        reps == {p \in mapped : sg[p] = None \/ p = MinOf(InGroup(sg, sg[p]))}
    IN  [icon_pool |-> [u \in AllUniqueUrls(res, sg) |-> PoolPath(u)],
         groups |-> [s \in kept |-> [icon_map |-> GroupScan(res, sg, s).icon_map]],
         source_to_group |->
            [url \in {res[p].url : p \in reps} |->
                sg[MaxOf({p \in reps : res[p].url = url})]]]

IconDataFrom(res, sg) ==
    LET kept == KeptGroups(res, sg)
        mapped == {p \in DOMAIN sg : sg[p] = None \/ sg[p] \in kept}
    IN  [icon_pool |-> [u \in AllUniqueUrls(res, sg) |-> PoolPath(u)],
         groups |-> [s \in kept |-> [icon_map |-> GroupScan(res, sg, s).icon_map]],
         source_to_group |->
            [url \in {res[p].url : p \in mapped} |->
                sg[MaxOf({p \in mapped : res[p].url = url})]]]

\* ------------------------------------------------------------ publication
\* A file name is the sequence of its dot-separated parts, each a string.
\* Path(name).suffix is empty for a name of one part.
DATA_DIR == << <<"data">> >>

RECURSIVE JoinDots(_)
JoinDots(name) ==
    IF Len(name) = 0 THEN <<>>
    ELSE IF Len(name) = 1 THEN name[1]
    ELSE name[1] \o <<".">> \o JoinDots(Tail(name))

\* The name proposed for a feed: the URL's basename, with '.xml.gz' or
\* '.xml' (by the file's magic bytes) appended when it has no suffix.
ProposedFilename(basename, gz) ==
    IF Len(basename) = 1
    THEN basename \o (IF gz THEN << <<"xml">>, <<"gz">> >> ELSE << <<"xml">> >>)
    ELSE basename

\* f"{p_stem}-{counter}{p_suffixes}": Path.stem is the name without its last
\* suffix, Path.suffixes are all the parts after the first.
SuffixedName(proposed, counter) ==
    LET stem == SubSeq(proposed, 1, Len(proposed) - 1)
        last == stem[Len(stem)] \o <<"-", ToString(counter)>>
    IN  SubSeq(stem, 1, Len(stem) - 1) \o <<last>> \o Tail(proposed)

\* A loop that tries one suffixed name and takes it unchecked.
FreeName_Once(final_name, proposed, counter, used_names) ==
    IF final_name \notin used_names THEN final_name
    ELSE SuffixedName(proposed, counter)

\* while final_name in used_names: ...
RECURSIVE FreeName(_, _, _, _)
FreeName(final_name, proposed, counter, used_names) ==
    IF final_name \notin used_names THEN final_name
    ELSE FreeName(SuffixedName(proposed, counter), proposed, counter + 1, used_names)

\* ------------------------------------------------------ the modelled world
UrlA == <<"a">>
UrlB == <<"b">>
UrlAB == <<"a", "b">>

Channel(id, icon) == [kind |-> "channel", id |-> id, icon |-> icon, nested |-> FALSE]
NestedChannel(id, icon) == [kind |-> "channel", id |-> id, icon |-> icon, nested |-> TRUE]
Programme(icon) == [kind |-> "programme", id |-> "", icon |-> icon, nested |-> FALSE]
NoFile == [gz |-> FALSE, form |-> "absent", elems |-> <<>>]

\* The configured feed URLs, [host, name], and the document each serves.
GuideXml == << <<"guide">>, <<"xml">> >>
GuideXmlGz == << <<"guide">>, <<"xml">>, <<"gz">> >>
Guide == << <<"guide">> >>
Guide1Xml == << <<"guide", "-", "1">>, <<"xml">> >>

Url1 == [host |-> "h1", name |-> GuideXml]
Url2 == [host |-> "h2", name |-> GuideXml]
Url3 == [host |-> "h3", name |-> GuideXmlGz]
Url4 == [host |-> "h4", name |-> Guide]
FeedUrls == {Url1, Url2, Url3, Url4}

\* A feed whose basename is the name the finalizing loop generates for the
\* second guide.xml, and the mirrors it is configured with.
Url5 == [host |-> "h5", name |-> Guide1Xml]
MirrorUrls == {Url1, Url2, Url5}

Remote(url) ==
    CASE url = Url1 ->
            [gz |-> FALSE, form |-> "ok",
             elems |-> <<Channel("c1", UrlA), Channel("c2", UrlB)>>]
      [] url = Url2 ->
            [gz |-> TRUE, form |-> "ok",
             elems |-> <<Channel("c2", UrlB), Channel("c1", UrlA), Channel("c3", NoIcon)>>]
      [] url = Url3 ->
            [gz |-> FALSE, form |-> "truncated",
             elems |-> <<Programme(UrlA), Programme(UrlA), Channel("c1", UrlB)>>]
      [] url = Url4 ->
            [gz |-> TRUE, form |-> "ok",
             elems |-> <<Channel("c1", NoSrc), Channel("", NoIcon)>>]
      [] url = Url5 ->
            [gz |-> FALSE, form |-> "ok", elems |-> <<Channel("c3", UrlA)>>]

\* The sequences over S of length up to n.
RECURSIVE SeqsUpTo(_, _)
SeqsUpTo(S, n) ==
    IF n = 0 THEN {<<>>}
    ELSE LET shorter == SeqsUpTo(S, n - 1)
         IN  shorter \cup {Append(q, x) : q \in shorter, x \in S}

\* Any document of up to MaxElems elements: well-formed or broken off after
\* its last element, or no XML at all.
FeedElems ==
    {Channel("c1", UrlA), Channel("c1", NoIcon), NestedChannel("c1", UrlAB),
     Channel("c2", NoSrc), Programme(UrlB)}

AnyFeeds ==
    {[gz |-> FALSE, form |-> f, elems |-> es] :
        f \in {"ok", "truncated"}, es \in SeqsUpTo(FeedElems, MaxElems)}
    \cup {[gz |-> FALSE, form |-> "garbage", elems |-> <<>>]}

\* ------------------------------------------------------------------- state
MaxSources == 2
\* `batch_size = 50` of perform_full_update, scaled down.
BATCH_SIZE == 2

VARIABLES
    sources,            \* the configured feeds, in configuration order
    mode,               \* "full" (--full-update) or "daily"
    pc,                 \* where main is
    timeout_occurred,   \* timeout_handler.timeout_occurred
    raising,            \* as_completed has raised TimeoutError in main
    fetch,              \* the download_one task of each source
    download_results,   \* the results in completion order (their task numbers)
    error,              \* res['error'] of each result ("" for None)
    staging,            \* the file at res['temp_path']
    gz_header,          \* per task: the gzip header of its temporary file
    raw_url,            \* res['raw_url'] of each result
    sig_of,             \* the signature stage 1 computed for a result
    icon_data,          \* the icon map in memory
    batches,            \* the icon batches submitted to the pool
    bpos,               \* how many items each batch task has gone through
    bdone,              \* whether each batch task has returned
    pool_files,         \* the files in icons/pool
    map_file,           \* icons_map.json
    rewrite,            \* the process_epg_file task of each result
    used_map,           \* the group_map each process_epg_file task was given
    rw_result,          \* what each process_epg_file task returned
    data_files,         \* the published files of data/, by name
    report,             \* the records update_readme wrote, in order
    icon_gets,          \* history: the icon URLs requested in this run
    signed,             \* history: the results signed in this run
    icon_failed,        \* history: the icon URLs whose download raised in this run
    map_writes,         \* history: how often this run has written the map file
    run_before,         \* history: the mode and end of the run before, icons/pool as it left it
    served,             \* the world: the document each configured URL serves
    temp_path           \* per task: the number os.urandom drew for its tmp_ name

confVars == <<sources, mode, served, temp_path>>
fetchVars == <<fetch, download_results, error, staging, gz_header, raw_url>>
iconVars == <<sig_of, icon_data, batches, bpos, bdone, timeout_occurred, raising>>
diskVars == <<pool_files, map_file, data_files>>
rewriteVars == <<rewrite, used_map, rw_result>>
histVars == <<icon_gets, signed, icon_failed, map_writes, run_before>>
vars == <<confVars, pc, fetchVars, iconVars, diskVars, rewriteVars, report, histVars>>

Tasks == 1..Len(sources)

\* temp_path = DATA_DIR / ("tmp_" + os.urandom(4).hex()): every download_one
\* task draws its name at random.  In DistinctTempNames the draws differ.
\* OnPath(i) are the tasks whose temporary file is the file of task i, and
\* WriteAt changes that file in a per-task table of files.
DistinctTempNames == temp_path = [i \in Tasks |-> i]
OnPath(i) == {j \in Tasks : temp_path[j] = temp_path[i]}
WriteAt(files, i, file) == [j \in DOMAIN files |-> IF j \in OnPath(i) THEN file ELSE files[j]]
EmptyDict == <<>>
NoResult == [ok |-> FALSE, changes |-> 0, written |-> FALSE, ran |-> FALSE]

\* What main has done when the fetch tasks are submitted: the configuration
\* is read (at least one source), data/ is cleared, every source has a task.
\* The header of a gzip file: the internal file name and the modification
\* time.  A plain file has none; a served gzip file has its server's.
NoHeader == [filename |-> <<>>, mtime |-> -1]
ServedHeader == [filename |-> << <<"served">> >>, mtime |-> 1]

Submitted(srcs) ==
    /\ fetch = [i \in 1..Len(srcs) |-> "running"]
    /\ download_results = <<>>
    /\ error = [i \in 1..Len(srcs) |-> ""]
    /\ staging = [i \in 1..Len(srcs) |-> NoFile]
    /\ gz_header = [i \in 1..Len(srcs) |-> NoHeader]
    /\ raw_url = [i \in 1..Len(srcs) |-> <<>>]
    /\ sig_of = EmptyDict
    /\ icon_data = NoIconData
    /\ batches = <<>>
    /\ bpos = <<>>
    /\ bdone = <<>>
    /\ timeout_occurred = FALSE
    /\ raising = FALSE
    /\ rewrite = [i \in 1..Len(srcs) |-> "none"]
    /\ used_map = [i \in 1..Len(srcs) |-> EmptyDict]
    /\ rw_result = [i \in 1..Len(srcs) |-> NoResult]
    /\ data_files = EmptyDict
    /\ report = <<>>
    /\ icon_gets = {}
    /\ signed = {}
    /\ icon_failed = {}
    /\ map_writes = 0

\* The icon data an earlier full update of the same configuration built,
\* with every fetch successful and completing in configuration order.
EarlierIconData(srcs, docs) ==
    LET res == [k \in DOMAIN srcs |-> [url |-> srcs[k], file |-> docs[srcs[k]]]]
    IN  IconDataFrom(res, [k \in DOMAIN srcs |-> GetIconSignatureFast(res[k].file)])

\* A run starts on a fresh checkout (no pool, no map) or, a daily run, on
\* what an earlier full update left: its map, and the pool files of the
\* icons whose download succeeded.  (A full update clears icons/ and
\* writes the map anew; SpecRuns lets runs follow one another.)
EarlierPool(srcs, docs) == {PoolPath(u) : u \in DOMAIN EarlierIconData(srcs, docs).icon_pool}

Started ==
    /\ mode \in {"full", "daily"}
    /\ pc = "fetch"
    /\ \/ /\ pool_files = {}
          /\ map_file = MapAbsent
       \/ /\ mode = "daily"
          /\ map_file = EncodeIconData(EarlierIconData(sources, served))
          /\ pool_files \in SUBSET EarlierPool(sources, served)
    /\ run_before = [mode |-> IF map_file = MapAbsent THEN "none" ELSE "full",
                     exit |-> IF map_file = MapAbsent THEN "none" ELSE "done",
                     pool |-> pool_files]
    /\ Submitted(sources)

\* A daily run can also find, next to the pool of an earlier full update, a
\* map file that is no JSON (the save was cut short) or that is JSON without
\* one of the three fields (written by another version of the script).
DamagedMaps(srcs, docs) ==
    {MapCorrupt} \cup
    {WithoutField(EncodeIconData(EarlierIconData(srcs, docs)), name) : name \in MapFields}

StartedDamaged ==
    /\ mode = "daily"
    /\ pc = "fetch"
    /\ map_file \in DamagedMaps(sources, served)
    /\ pool_files = EarlierPool(sources, served)
    /\ run_before = [mode |-> "other", exit |-> "other", pool |-> pool_files]
    /\ Submitted(sources)

\* Up to MaxSources feeds of the catalogue, any of them configured twice.
Init ==
    /\ sources \in SeqsUpTo(FeedUrls, MaxSources) \ {<<>>}
    /\ served = [u \in {sources[i] : i \in DOMAIN sources} |-> Remote(u)]
    /\ DistinctTempNames
    /\ Started

\* The same configurations, the disk possibly holding a damaged map file.
FaultInit ==
    /\ sources \in SeqsUpTo(FeedUrls, MaxSources) \ {<<>>}
    /\ served = [u \in {sources[i] : i \in DOMAIN sources} |-> Remote(u)]
    /\ DistinctTempNames
    /\ Started \/ StartedDamaged

\* One feed, serving any document of up to MaxElems elements.
FeedInit ==
    /\ sources = <<Url1>>
    /\ served \in [{Url1} -> AnyFeeds]
    /\ DistinctTempNames
    /\ Started

\* The same configurations as Init, the random names drawn freely: two
\* tasks can draw the same.
TempInit ==
    /\ sources \in SeqsUpTo(FeedUrls, MaxSources) \ {<<>>}
    /\ served = [u \in {sources[i] : i \in DOMAIN sources} |-> Remote(u)]
    /\ temp_path \in [Tasks -> Tasks]
    /\ Started

\* As many feeds as there are mirrors, any of them configured twice: the
\* basename of a later one can be the name generated for an earlier one.
MirrorLists == [1..Cardinality(MirrorUrls) -> MirrorUrls]

NameInit ==
    /\ sources \in MirrorLists
    /\ served = [u \in {sources[i] : i \in DOMAIN sources} |-> Remote(u)]
    /\ DistinctTempNames
    /\ Started

\* ------------------------------------------------------------ stage 0: fetch
\* A download_one task ends and main, iterating as_completed, appends its
\* result.  A failure (network error, HTTP status, empty body) sets the
\* error and removes the temporary file.
FetchComplete(i, ok) ==
    /\ fetch[i] = "running"
    /\ fetch' = [fetch EXCEPT ![i] = IF ok THEN "ok" ELSE "failed"]
    /\ download_results' = Append(download_results, i)
    /\ error' = [error EXCEPT ![i] = IF ok THEN "" ELSE "download failed"]
    /\ staging' = WriteAt(staging, i, IF ok THEN served[sources[i]] ELSE NoFile)
    /\ gz_header' = WriteAt(gz_header, i, IF ok /\ served[sources[i]].gz
                                          THEN ServedHeader ELSE NoHeader)
    /\ UNCHANGED <<confVars, pc, raw_url, iconVars, diskVars, rewriteVars, report, histVars>>

\* Mutant: main goes on without waiting for the fetch tasks.
FetchJoined_NoWait == TRUE

\* Leaving `with ThreadPoolExecutor(...)` waits for every fetch task.
FetchJoined == \A i \in Tasks : fetch[i] # "running"

\* --full-update: clear_directory(ICONS_DIR), then perform_full_update.
StartFullUpdate ==
    /\ pc = "fetch"
    /\ FetchJoined
    /\ mode = "full"
    /\ pool_files' = {}
    /\ pc' = "group"
    /\ UNCHANGED <<confVars, fetchVars, iconVars, map_file, data_files, rewriteVars, report, histVars>>

\* Mutant: icons/ is cleared whatever the mode.
LoadDaily_ClearsIcons ==
    /\ pc = "fetch"
    /\ \A i \in Tasks : fetch[i] # "running"
    /\ mode = "daily"
    /\ icon_data' = LoadIconData(map_file)
    /\ pool_files' = {}
    /\ pc' = "rewrite"
    /\ UNCHANGED <<confVars, fetchVars, sig_of, batches, bpos, bdone, timeout_occurred,
                   raising, map_file, data_files, rewriteVars, report, histVars>>

\* Daily mode: load_icon_data_for_daily_update.
LoadDaily ==
    /\ pc = "fetch"
    /\ FetchJoined
    /\ mode = "daily"
    /\ icon_data' = LoadIconData(map_file)
    /\ pc' = "rewrite"
    /\ UNCHANGED <<confVars, fetchVars, sig_of, batches, bpos, bdone, timeout_occurred,
                   raising, diskVars, rewriteVars, report, histVars>>

\* ---------------------------------------------------- stage 1: signatures
Succeeded == {i \in Tasks : fetch[i] # "running" /\ error[i] = ""}

\* Every result without an error is signed and appended to its group.
GroupSources ==
    /\ pc = "group"
    /\ ~timeout_occurred
    /\ sig_of' = [i \in Succeeded |-> GetIconSignatureFast(staging[i])]
    /\ signed' = signed \cup Succeeded
    /\ pc' = "maps"
    /\ UNCHANGED <<confVars, fetchVars, icon_data, batches, bpos, bdone, timeout_occurred,
                   raising, diskVars, rewriteVars, report, icon_gets, icon_failed, map_writes,
                   run_before>>

\* ------------------------------------------- stage 2: the groups' icon maps
\* The results without error, in completion order, and their signatures.
HasNoError(i) == error[i] = ""
SuccessfulResults ==
    LET order == SelectSeq(download_results, HasNoError)
    IN  [p \in DOMAIN order |-> [url |-> sources[order[p]], file |-> staging[order[p]]]]
SuccessfulSignatures ==
    LET order == SelectSeq(download_results, HasNoError)
    IN  [p \in DOMAIN order |-> sig_of[order[p]]]

\* items[i:i+batch_size] for i in range(0, len(items), batch_size)
RECURSIVE Chunks(_)
Chunks(items) ==
    IF items = <<>> THEN <<>>
    ELSE IF Len(items) <= BATCH_SIZE THEN <<items>>
    ELSE <<SubSeq(items, 1, BATCH_SIZE)>> \o Chunks(SubSeq(items, BATCH_SIZE + 1, Len(items)))

\* Stages 2 and 2.1: the maps, the pool paths, and the batches of the URLs
\* whose pool file is not on disk, submitted under the alarm.
BuildMaps ==
    /\ pc = "maps"
    /\ ~timeout_occurred
    /\ icon_data' = IconDataFrom(SuccessfulResults, SuccessfulSignatures)
    /\ LET all_unique_urls == AllUniqueUrls(SuccessfulResults, SuccessfulSignatures)
           urls_to_download == {u \in all_unique_urls : PoolPath(u) \notin pool_files}
       IN  /\ batches' = Chunks(SortedUrls(urls_to_download))
           /\ bpos' = [b \in DOMAIN batches' |-> 0]
           /\ bdone' = [b \in DOMAIN batches' |-> FALSE]
           /\ pc' = IF urls_to_download = {} THEN "save" ELSE "icons"
    /\ UNCHANGED <<confVars, fetchVars, sig_of, timeout_occurred, raising, diskVars,
                   rewriteVars, report, histVars>>

\* ------------------------------------------------ stage 2.1: icon downloads
\* One iteration of download_icon_batch: the flag is clear and the icon is
\* requested.  "ok": the body is written to the pool path.  "failed": the
\* request raises before the file is opened (connection error, HTTP status).
\* "partial": the body breaks off after the file was opened; the exception
\* is swallowed and the file stays, holding what had arrived.
IconOutcomes == {"ok", "failed", "partial"}

IconDownload(b, outcome) ==
    /\ ~bdone[b]
    /\ ~timeout_occurred
    /\ LET url == batches[b][bpos[b] + 1]
       IN  /\ icon_gets' = icon_gets \cup {url}
           /\ pool_files' = IF outcome = "failed" THEN pool_files
                            ELSE pool_files \cup {PoolPath(url)}
           /\ icon_failed' = IF outcome = "ok" THEN icon_failed
                             ELSE icon_failed \cup {url}
    /\ bpos' = [bpos EXCEPT ![b] = @ + 1]
    /\ bdone' = [bdone EXCEPT ![b] = bpos[b] + 1 = Len(batches[b])]
    /\ UNCHANGED <<confVars, pc, fetchVars, sig_of, icon_data, batches, timeout_occurred,
                   raising, map_file, data_files, rewriteVars, report, signed, map_writes,
                   run_before>>

\* download_icon_batch finds the flag set and breaks.
IconBatchBreak(b) ==
    /\ ~bdone[b]
    /\ timeout_occurred
    /\ bdone' = [bdone EXCEPT ![b] = TRUE]
    /\ UNCHANGED <<confVars, pc, fetchVars, sig_of, icon_data, batches, bpos,
                   timeout_occurred, raising, diskVars, rewriteVars, report, histVars>>

\* SIGALRM, MAX_ICON_DOWNLOAD_TIME after timeout_context was entered.
Alarm ==
    /\ pc = "icons"
    /\ ~timeout_occurred
    /\ timeout_occurred' = TRUE
    /\ UNCHANGED <<confVars, pc, fetchVars, sig_of, icon_data, batches, bpos, bdone,
                   raising, diskVars, rewriteVars, report, histVars>>

\* as_completed(..., timeout=MAX_ICON_DOWNLOAD_TIME) reaches its deadline,
\* which lies just after the alarm, with futures still pending: it raises
\* TimeoutError outside the loop's try, and main starts leaving the `with`.
AsCompletedTimeout ==
    /\ pc = "icons"
    /\ timeout_occurred
    /\ ~raising
    /\ \E b \in DOMAIN batches : ~bdone[b]
    /\ raising' = TRUE
    /\ UNCHANGED <<confVars, pc, fetchVars, sig_of, icon_data, batches, bpos, bdone,
                   timeout_occurred, diskVars, rewriteVars, report, histVars>>

\* Leaving `with ThreadPoolExecutor(...)` waits for every batch task.
BatchesJoined == \A b \in DOMAIN batches : bdone[b]

\* Main leaves the icon pool's `with`: every batch task has returned, and the
\* pool and its futures are gone; then the TimeoutError, if raised,
\* propagates out of main (exit status 1).
IconsJoined ==
    /\ pc = "icons"
    /\ BatchesJoined
    /\ pc' = IF raising THEN "crashed" ELSE "save"
    /\ batches' = <<>>
    /\ bpos' = <<>>
    /\ bdone' = <<>>
    /\ UNCHANGED <<confVars, fetchVars, sig_of, icon_data, timeout_occurred, raising,
                   diskVars, rewriteVars, report, histVars>>

\* json.dump(icon_data, ...) into icons_map.json.
SaveIconMap ==
    /\ pc = "save"
    /\ map_file' = EncodeIconData(icon_data)
    /\ map_writes' = map_writes + 1
    /\ pc' = "rewrite"
    /\ UNCHANGED <<confVars, fetchVars, iconVars, pool_files, data_files, rewriteVars,
                   report, icon_gets, signed, icon_failed, run_before>>

\* ------------------------------------------------- stage 3: icon rewriting
\* icon_pool = icon_data.get('icon_pool', {})
IconPoolOf(data) == IF "icon_pool" \in DOMAIN data THEN data.icon_pool ELSE EmptyDict

\* icon_data['source_to_group'] and, for a source with a group hash,
\* icon_data['groups'] are indexed: a missing field raises KeyError.
RaisesKeyError(i) ==
    \/ "source_to_group" \notin DOMAIN icon_data
    \/ /\ sources[i] \in DOMAIN icon_data.source_to_group
       /\ icon_data.source_to_group[sources[i]] # None
       /\ "groups" \notin DOMAIN icon_data

\* The group_map main resolves for a result: the icon_map of the group its
\* URL is mapped to, or {}.
GroupMapFor(i) ==
    LET s2g == icon_data.source_to_group
        url == sources[i]
    IN  IF /\ url \in DOMAIN s2g
           /\ s2g[url] # None
           /\ s2g[url] \in DOMAIN icon_data.groups
        THEN icon_data.groups[s2g[url]].icon_map
        ELSE EmptyDict

\* With icon data, main goes through download_results in completion order
\* and submits a process_epg_file task for every result that has no error,
\* unless the timeout flag is set.  The first result for which the icon data
\* lacks a field raises KeyError: the results before it are submitted, the
\* others are not.
StartRewrite ==
    /\ pc = "rewrite"
    /\ LET considered == IF icon_data = NoIconData \/ timeout_occurred THEN {}
                         ELSE {p \in DOMAIN download_results : error[download_results[p]] = ""}
           raised == {p \in considered : RaisesKeyError(download_results[p])}
           submitted == {download_results[p] :
                            p \in {q \in considered : \A r \in raised : q < r}}
       IN  /\ rewrite' = [i \in Tasks |-> IF i \in submitted THEN "running" ELSE "none"]
           /\ used_map' = [i \in Tasks |-> IF i \in submitted THEN GroupMapFor(i) ELSE EmptyDict]
           /\ raising' = (raised # {})
    /\ pc' = "rewriting"
    /\ UNCHANGED <<confVars, fetchVars, sig_of, icon_data, batches, bpos, bdone,
                   timeout_occurred, diskVars, rw_result, report, histVars>>

\* is_gzipped: the file starts with the gzip magic bytes.
IsGzipped(file) == file.gz

\* archive_internal_name: the URL's basename without its last three
\* characters when it ends with '.gz', otherwise with '.xml' appended.
\* (The names of the model are lower-case, as lower() makes them.)
ArchiveInternalName(original_filename) ==
    IF Len(original_filename) > 1 /\ original_filename[Len(original_filename)] = <<"gz">>
    THEN SubSeq(original_filename, 1, Len(original_filename) - 1)
    ELSE original_filename \o << <<"xml">> >>

\* gzip.GzipFile(filename=archive_internal_name, ..., mtime=0) for a file
\* that was gzip; a plain file is written without header.
WrittenHeader(was_gzipped, original_filename) ==
    IF was_gzipped
    THEN [filename |-> ArchiveInternalName(original_filename), mtime |-> 0]
    ELSE NoHeader

\* What an I/O error while the file is written back can leave at the path:
\* open(file_path, 'wb') has emptied the file, and the error comes before
\* any byte is written (an empty file, not gzip, no document) or after some
\* (the new content, broken off).
EmptyFile == [gz |-> FALSE, form |-> "garbage", elems |-> <<>>]
BrokenWrites(new_file) == {EmptyFile, [new_file EXCEPT !.form = "truncated"]}

\* The I/O faults of the write-back: none, open() raises (the file is not
\* touched), or a write raises after open() emptied the file.
WriteFaults == {"none", "open", "write"}

\* A process_epg_file task runs.  A fault can only strike when the file is
\* written back (changes_made > 0); the exception is caught and the task
\* returns False.
RewriteFile(i, fault) ==
    /\ rewrite[i] = "running"
    /\ LET r == ProcessEpgFile(staging[i], used_map[i], IconPoolOf(icon_data),
                               pool_files, timeout_occurred)
       IN  /\ fault # "none" => r.written
           /\ \/ /\ fault = "none"
                 /\ staging' = WriteAt(staging, i, r.file)
                 /\ gz_header' = IF r.written
                                 THEN WriteAt(gz_header, i,
                                              WrittenHeader(IsGzipped(staging[i]),
                                                            sources[i].name))
                                 ELSE gz_header
              \/ /\ fault = "open"
                 /\ staging' = staging
                 /\ gz_header' = gz_header
              \/ /\ fault = "write"
                 /\ \E left \in BrokenWrites(r.file) :
                        /\ staging' = WriteAt(staging, i, left)
                        /\ gz_header' = WriteAt(gz_header, i,
                                                IF left = EmptyFile THEN NoHeader
                                                ELSE WrittenHeader(IsGzipped(staging[i]),
                                                                   sources[i].name))
           /\ rw_result' = [rw_result EXCEPT ![i] =
                              [ok |-> r.ok /\ fault = "none", changes |-> r.changes,
                               written |-> r.written /\ fault = "none", ran |-> TRUE]]
    /\ rewrite' = [rewrite EXCEPT ![i] = "done"]
    /\ UNCHANGED <<confVars, pc, fetch, download_results, error, raw_url, iconVars,
                   diskVars, used_map, report, histVars>>

\* ------------------------------------------------------ stage 4: finalizing
\* url_to_result = {res['entry']['url']: res for res in download_results}:
\* of the results of one URL, the last in completion order stays.
PositionOf(i) == CHOOSE p \in DOMAIN download_results : download_results[p] = i
UrlToResult(url) ==
    download_results[MaxOf({PositionOf(i) : i \in {j \in Tasks : sources[j] = url}})]

\* ordered_results = [url_to_result[s['url']] for s in sources]
OrderedResults == [k \in Tasks |-> UrlToResult(sources[k])]

\* One turn of the finalizing loop, for result r.  st carries used_names,
\* the files, the results' error and raw_url, and final_results.  A result
\* with an error is appended as it is; otherwise its file is renamed to
\* data/<final name>, which fails when the temporary file is gone.
FinalizeOne(st, r) ==
    IF st.error[r] # "" THEN [st EXCEPT !.final = Append(@, r)]
    ELSE
        LET basename == sources[r].name
            proposed == ProposedFilename(basename, IsGzipped(st.staging[r]))
            final_name == FreeName(proposed, proposed, 1, st.used)
            target == JoinDots(final_name)
        IN  IF st.staging[r] # NoFile
            THEN [st EXCEPT !.used = @ \cup {final_name},
                            !.data = Put(@, target, st.staging[r]),
                            !.staging = WriteAt(@, r, NoFile),
                            !.raw[r] = RawUrl(DATA_DIR \o <<target>>),
                            !.final = Append(@, r)]
            ELSE [st EXCEPT !.used = @ \cup {final_name},
                            !.error[r] = "rename failed",
                            !.final = Append(@, r)]

RECURSIVE FinalizeFrom(_, _)
FinalizeFrom(st, k) ==
    IF k > Len(sources) THEN st
    ELSE FinalizeFrom(FinalizeOne(st, OrderedResults[k]), k + 1)

\* Leaving the rewriting pool's `with` waits for every task.
RewritesJoined == \A i \in Tasks : rewrite[i] # "running"

\* Leaving the rewriting pool waits for its tasks; then the results are put
\* in configuration order, finalized, and update_readme writes one record
\* per entry of final_results.  With the timeout flag set main exits 1.
Finalize ==
    /\ pc = "rewriting"
    /\ RewritesJoined
    /\ ~raising
    /\ LET st == FinalizeFrom([used |-> {}, data |-> data_files, staging |-> staging,
                               error |-> error, raw |-> raw_url, final |-> <<>>], 1)
       IN  /\ staging' = st.staging
           /\ error' = st.error
           /\ raw_url' = st.raw
           /\ data_files' = st.data
           /\ report' = [k \in DOMAIN st.final |->
                            [entry |-> st.final[k],
                             url |-> sources[st.final[k]],
                             error |-> st.error[st.final[k]],
                             raw_url |-> st.raw[st.final[k]]]]
    /\ pc' = IF timeout_occurred THEN "exit1" ELSE "done"
    /\ UNCHANGED <<confVars, fetch, download_results, gz_header, iconVars, pool_files,
                   map_file, rewriteVars, histVars>>

\* The KeyError raised in stage 3 leaves the rewriting pool's `with`, which
\* waits for the tasks submitted before it, and then main: the handler of
\* __main__ prints it and exits 1.  Nothing is finalized, no report written.
RewriteCrash ==
    /\ pc = "rewriting"
    /\ RewritesJoined
    /\ raising
    /\ pc' = "crashed"
    /\ UNCHANGED <<confVars, fetchVars, iconVars, diskVars, rewriteVars, report, histVars>>

\* ------------------------------------------------------------ the next run
\* The script is started again on the same configuration: a new process
\* (the flag is clear), data/ cleared, every source's fetch task submitted.
Exited == pc \in {"done", "exit1", "crashed"}

NextRun ==
    /\ Exited
    /\ mode' \in {"full", "daily"}
    /\ pc' = "fetch"
    /\ fetch' = [i \in Tasks |-> "running"]
    /\ download_results' = <<>>
    /\ error' = [i \in Tasks |-> ""]
    /\ staging' = [i \in Tasks |-> NoFile]
    /\ gz_header' = [i \in Tasks |-> NoHeader]
    /\ raw_url' = [i \in Tasks |-> <<>>]
    /\ sig_of' = EmptyDict
    /\ icon_data' = NoIconData
    /\ batches' = <<>>
    /\ bpos' = <<>>
    /\ bdone' = <<>>
    /\ timeout_occurred' = FALSE
    /\ raising' = FALSE
    /\ rewrite' = [i \in Tasks |-> "none"]
    /\ used_map' = [i \in Tasks |-> EmptyDict]
    /\ rw_result' = [i \in Tasks |-> NoResult]
    /\ data_files' = EmptyDict
    /\ report' = <<>>
    /\ icon_gets' = {}
    /\ signed' = {}
    /\ icon_failed' = {}
    /\ map_writes' = 0
    /\ run_before' = [mode |-> mode, exit |-> pc, pool |-> pool_files]
    /\ temp_path' = temp_path
    /\ UNCHANGED <<sources, served, pool_files, map_file>>

Next ==
    \/ \E i \in Tasks, ok \in BOOLEAN : FetchComplete(i, ok)
    \/ StartFullUpdate
    \/ LoadDaily
    \/ GroupSources
    \/ BuildMaps
    \/ \E b \in DOMAIN batches, outcome \in IconOutcomes \ {"partial"} :
            IconDownload(b, outcome)
    \/ \E b \in DOMAIN batches : IconBatchBreak(b)
    \/ Alarm
    \/ AsCompletedTimeout
    \/ IconsJoined
    \/ SaveIconMap
    \/ StartRewrite
    \/ \E i \in Tasks : RewriteFile(i, "none")
    \/ Finalize

Spec == Init /\ [][Next]_vars

FeedSpec == FeedInit /\ [][Next]_vars

\* A run over one configured feed that goes on while it can: the pools run
\* every task they were given and the main thread, blocked only in joins,
\* takes its next step.
LiveInit == Init /\ Len(sources) = 1

LiveSpec == LiveInit /\ [][Next]_vars /\ WF_vars(Next)

\* Runs following one another on the same checkout.
NextRuns == Next \/ NextRun

SpecRuns == Init /\ [][NextRuns]_vars

\* A run in which the random names of the temporary files can coincide.
TempSpec == TempInit /\ [][Next]_vars
NameSpec == NameInit /\ [][Next]_vars

\* A run in which I/O can fail half-way (an icon's body breaks off, the
\* write-back of a feed raises) and the map file can be damaged.
NextFaults ==
    \/ Next
    \/ \E b \in DOMAIN batches : IconDownload(b, "partial")
    \/ \E i \in Tasks, fault \in WriteFaults \ {"none"} : RewriteFile(i, fault)
    \/ RewriteCrash

FaultSpec == FaultInit /\ [][NextFaults]_vars

\* ------------------------------------------------------------------ claims
\* C1: in every run that passes the configuration checks the status report
\* holds exactly one record per configured feed, the i-th record belonging
\* to the i-th configured source.
C1_ReportPerSource ==
    pc \in {"done", "exit1"} =>
        /\ Len(report) = Len(sources)
        /\ \A k \in Tasks : report[k].entry = k

\* C2: no feed is signed or grouped while a fetch task is still running, and
\* no rewrite task has started while a signing, pool-building or icon
\* download task is still running, also when the timeout flag cut the icon
\* downloads short.
C2_StrictBarriers ==
    /\ (pc \in {"group", "maps"} \/ signed # {} \/ DOMAIN sig_of # {}) =>
            \A i \in Tasks : fetch[i] # "running"
    /\ (\E i \in Tasks : rewrite[i] # "none") =>
            /\ \A i \in Tasks : fetch[i] # "running"
            /\ pc \notin {"fetch", "group", "maps", "icons", "save"}
            /\ \A b \in DOMAIN batches : bdone[b]
    /\ pc \in {"crashed", "rewrite", "rewriting", "done", "exit1"} =>
            \A b \in DOMAIN batches : bdone[b]

\* A rewrite task runs after feeds were signed and icons requested.
C2_Witness ==
    /\ \E i \in Tasks : rewrite[i] = "running"
    /\ Cardinality(signed) >= 2
    /\ icon_gets # {}

\* The successfully fetched feeds, and the icon sets of their documents.
Fetched == {i \in Tasks : fetch[i] = "ok"}
FetchedIconSet(i) == IconSrcSet(served[sources[i]])

\* The feeds i and j are mapped to one group whose one map the rewriter was
\* given for both.
SharedGroup(i, j) ==
    LET s2g == icon_data.source_to_group
    IN  /\ sources[i] \in DOMAIN s2g
        /\ sources[j] \in DOMAIN s2g
        /\ s2g[sources[i]] = s2g[sources[j]]
        /\ s2g[sources[i]] \in DOMAIN icon_data.groups
        /\ used_map[i] = icon_data.groups[s2g[sources[i]]].icon_map
        /\ used_map[j] = icon_data.groups[s2g[sources[i]]].icon_map

RepresentativeOf(s) ==
    download_results[MinOf({p \in DOMAIN download_results :
                                /\ download_results[p] \in Fetched
                                /\ sig_of[download_results[p]] = s})]

SignatureOf == [g \in AnyFeeds |-> GetIconSignatureFast(g)]

\* The feed of FeedSpec has just been signed.
Signed == mode = "full" /\ pc = "maps" /\ 1 \in DOMAIN sig_of

\* C4: two successfully fetched feeds whose non-empty sets of icon URLs are
\* disjoint never receive the same signature, the hash being collision-free
\* (Sha256 is injective).  Stated for well-formed feeds that get a signature.
C4_DisjointSetsDistinctSignatures ==
    Signed =>
        LET f == served[Url1]
        IN  \A g \in AnyFeeds :
                (/\ f.form = "ok" /\ g.form = "ok"
                 /\ sig_of[1] # None
                 /\ IconSrcSet(f) # {} /\ IconSrcSet(g) # {}
                 /\ IconSrcSet(f) \cap IconSrcSet(g) = {}) =>
                    SignatureOf[g] # sig_of[1]

\* C5 as stated: feeds whose icon elements carry the same set of distinct
\* src values get the same signature; a feed with no icon src gets the nil
\* signature, and a feed with one gets another.
C5_SameSetSameSignature ==
    Signed =>
        LET f == served[Url1]
        IN  /\ \A g \in AnyFeeds : IconSrcSet(g) = IconSrcSet(f) => SignatureOf[g] = sig_of[1]
            /\ IconSrcSet(f) = {} <=> sig_of[1] = None

\* What the scan reads: the first SIG_ICON_LIMIT + 1 icon elements; and
\* whether it ends without a parse error.
ScannedSrcSet(feed) ==
    LET scanned == Prefix(IconElems(feed), SIG_ICON_LIMIT + 1)
    IN  {scanned[k].icon : k \in {j \in DOMAIN scanned : HasSrc(scanned[j])}}
ScanEnds(feed) ==
    \/ feed.form = "ok"
    \/ feed.form = "truncated" /\ Len(IconElems(feed)) > SIG_ICON_LIMIT + 1

\* C5 amended: feeds whose scans end without a parse error and whose first
\* 10001 icon elements carry the same set of distinct src values get the same
\* signature, whatever the order and multiplicity of the icon elements; such
\* a feed gets the nil signature exactly when those elements carry no src;
\* a feed whose scan meets a parse error gets the nil signature.
C5_SameScannedSetSameSignature ==
    Signed =>
        LET f == served[Url1]
        IN  /\ ScanEnds(f) =>
                /\ \A g \in AnyFeeds :
                      (ScanEnds(g) /\ ScannedSrcSet(g) = ScannedSrcSet(f)) =>
                          SignatureOf[g] = sig_of[1]
                /\ ScannedSrcSet(f) = {} <=> sig_of[1] = None
            /\ ~ScanEnds(f) => sig_of[1] = None

\* A feed of two src values is signed like another document that carries
\* them in another order and number.
C5_Witness ==
    /\ Signed
    /\ sig_of[1] # None
    /\ Cardinality(ScannedSrcSet(served[Url1])) = 2
    /\ \E g \in AnyFeeds :
        /\ ScanEnds(g)
        /\ ScannedSrcSet(g) = ScannedSrcSet(served[Url1])
        /\ Len(IconElems(g)) # Len(IconElems(served[Url1]))
        /\ SignatureOf[g] = sig_of[1]

\* The channel e is mapped, by the group map gm and then the pool, to a pool
\* file that is on disk; and the published URL of that file.
Matched(e, gm, pool, files) ==
    /\ e.kind = "channel"
    /\ e.id \in DOMAIN gm
    /\ gm[e.id] \in DOMAIN pool
    /\ pool[gm[e.id]] \in files
PublishedIcon(e, gm, pool) ==
    <<"https://raw.githubusercontent.com/", "owner", "/", "repo", "/main/">>
        \o PathStr(pool[gm[e.id]])

\* Task i has succeeded in this step, with a group map and a pool.
Rewritten(i) ==
    /\ rewrite[i] = "running"
    /\ rewrite'[i] = "done"
    /\ rw_result'[i].ok
    /\ DOMAIN used_map[i] # {}
    /\ DOMAIN icon_data.icon_pool # {}

\* The elements `hit` of the file of task i have the published URL of their
\* pool file as icon src, the changes counted are those of them whose src
\* differed from it, and every other element is as it was.
RewrittenAt(i, hit) ==
    LET before == staging[i].elems
        after == staging'[i].elems
        gm == used_map[i]
        pool == icon_data.icon_pool
    IN  /\ DOMAIN after = DOMAIN before
        /\ \A k \in hit :
              /\ after[k].icon = PublishedIcon(before[k], gm, pool)
              /\ after[k].kind = before[k].kind
              /\ after[k].id = before[k].id
        /\ \A k \in DOMAIN before \ hit : after[k] = before[k]
        /\ rw_result'[i].changes =
              Cardinality({k \in hit : before[k].icon # PublishedIcon(before[k], gm, pool)})

\* C6 as stated: after process_epg_file succeeds with a non-empty group map
\* and pool, every channel element mapped to a pool file on disk has an icon
\* child whose src is the published URL of that file (created when it had
\* none); the src is written, and counted, exactly when it differed; every
\* other channel is as it was.
C6_EveryChannelRewritten ==
    [][\A i \in Tasks :
        Rewritten(i) =>
            RewrittenAt(i, {k \in DOMAIN staging[i].elems :
                Matched(staging[i].elems[k], used_map[i], icon_data.icon_pool, pool_files)})
    ]_vars

\* C6 amended: the same of every channel element that is a child of the
\* document's root; channel elements below other elements are left as they
\* were, mapped or not.
C6_RootChannelsRewritten ==
    [][\A i \in Tasks :
        Rewritten(i) =>
            RewrittenAt(i, {k \in DOMAIN staging[i].elems :
                /\ ~staging[i].elems[k].nested
                /\ Matched(staging[i].elems[k], used_map[i], icon_data.icon_pool, pool_files)})
    ]_vars

\* A rewritten feed in which a channel without icon child got one, while a
\* mapped channel below another element kept its own.
C6_Witness ==
    /\ pc = "rewriting"
    /\ rw_result[1].ran
    /\ rw_result[1].ok
    /\ rw_result[1].changes > 0
    /\ \E k \in DOMAIN served[Url1].elems :
        /\ served[Url1].elems[k].icon = NoIcon
        /\ staging[1].elems[k].icon # NoIcon
    /\ \E k \in DOMAIN served[Url1].elems :
        /\ served[Url1].elems[k].nested
        /\ Matched(served[Url1].elems[k], used_map[1], icon_data.icon_pool, pool_files)
        /\ staging[1].elems[k] = served[Url1].elems[k]

\* C7: process_epg_file applied again to a feed it has rewritten, with the
\* same group map, icon pool and pool directory, makes zero changes and does
\* not write the file.
C7_RewriteIdempotent ==
    pc = "rewriting" =>
        \A i \in Tasks :
            (rw_result[i].ran /\ rw_result[i].ok) =>
                LET again == ProcessEpgFile(staging[i], used_map[i], icon_data.icon_pool,
                                            pool_files, timeout_occurred)
                IN  /\ again.ok
                    /\ again.changes = 0
                    /\ ~again.written
                    /\ again.file = staging[i]

\* A feed whose rewriting changed two channels.
C7_Witness ==
    /\ pc = "rewriting"
    /\ \E i \in Tasks : rw_result[i].ran /\ rw_result[i].ok /\ rw_result[i].changes >= 2

\* C8: across two consecutive full updates over the same icon URLs every URL
\* keeps its pool filename, and the second run requests no icon whose pool
\* file the run before left on disk.
C8_NoRenameNoRedownload ==
    (mode = "full" /\ run_before.mode = "full" /\ run_before.exit = "done") =>
        /\ \A u \in icon_gets : PoolPath(u) \notin run_before.pool
        /\ (pc \in {"icons", "save"} /\ map_file # MapAbsent /\ map_file # MapCorrupt) =>
              \A u \in DOMAIN icon_data.icon_pool \cap DOMAIN map_file.icon_pool :
                  LoadIconData(map_file).icon_pool[u] = icon_data.icon_pool[u]

\* C9: a daily run never computes a signature, never requests an icon, and
\* never creates, deletes or modifies a file of the icon pool or the icon
\* map file.
C9_DailyReadOnly ==
    [][mode = "daily" =>
        /\ signed' = {}
        /\ icon_gets' = {}
        /\ DOMAIN sig_of' = {}
        /\ pool_files' = pool_files
        /\ map_file' = map_file
    ]_vars

\* A daily run has ended, having rewritten a feed with the icons of the pool
\* an earlier full update left.
C9_Witness ==
    /\ mode = "daily"
    /\ pc = "done"
    /\ pool_files # {}
    /\ map_file # MapAbsent
    /\ \E i \in Tasks : rw_result[i].ran /\ rw_result[i].changes > 0

\* C10: the icon map a full update saved, loaded back, has the same
\* icon_pool keys with paths equal after forward-slash normalization, the
\* same groups with the same channel-id to icon-URL maps, and the same
\* source_to_group entries, the None ones too.
C10_SaveLoadRoundTrip ==
    (mode = "full" /\ pc \in {"rewrite", "rewriting", "done", "exit1"}) =>
        LET loaded == LoadIconData(map_file)
        IN  /\ loaded # NoIconData
            /\ DOMAIN loaded.icon_pool = DOMAIN icon_data.icon_pool
            /\ \A u \in DOMAIN icon_data.icon_pool :
                  ReplaceBackslash(PathStr(loaded.icon_pool[u])) =
                      ReplaceBackslash(PathStr(icon_data.icon_pool[u]))
            /\ DOMAIN loaded.groups = DOMAIN icon_data.groups
            /\ \A s \in DOMAIN icon_data.groups :
                  loaded.groups[s].icon_map = icon_data.groups[s].icon_map
            /\ DOMAIN loaded.source_to_group = DOMAIN icon_data.source_to_group
            /\ \A url \in DOMAIN icon_data.source_to_group :
                  loaded.source_to_group[url] = icon_data.source_to_group[url]

\* A saved map with a pool, a group and a None entry.
C10_Witness ==
    /\ mode = "full"
    /\ pc = "rewrite"
    /\ map_file = EncodeIconData(icon_data)
    /\ DOMAIN icon_data.icon_pool # {}
    /\ DOMAIN icon_data.groups # {}
    /\ \E url \in DOMAIN icon_data.source_to_group : icon_data.source_to_group[url] = None

\* The report holds an error record for source i, without public URL.
ReportedAsError(i) ==
    \E k \in DOMAIN report :
        /\ report[k].entry = i
        /\ report[k].error # ""
        /\ report[k].raw_url = <<>>

\* C11: a feed whose fetch fails gets an error on its result, leaves no
\* staging file, is never signed, grouped, rewritten or renamed, takes no
\* published filename, and is in the report as an error entry.
C11_FailedFetchIsolated ==
    \A i \in Tasks :
        fetch[i] = "failed" =>
            /\ error[i] # ""
            /\ staging[i] = NoFile
            /\ i \notin signed
            /\ i \notin DOMAIN sig_of
            /\ rewrite[i] = "none"
            /\ ~rw_result[i].ran
            /\ raw_url[i] = <<>>
            /\ pc \in {"done", "exit1"} => ReportedAsError(i)

\* C12: when the download of an icon fails at any point, no file exists at
\* its pool path after the download phase, and the rewriter leaves the icon
\* reference of every channel mapped to that icon as it was.
C12_FailedIconAbsent ==
    (mode = "full" /\ pc \in {"save", "rewrite", "rewriting", "done", "exit1"}) =>
        \A u \in icon_failed :
            /\ PoolPath(u) \notin pool_files
            /\ \A i \in Tasks :
                  rw_result[i].ran =>
                      \A k \in DOMAIN served[sources[i]].elems :
                          LET e == served[sources[i]].elems[k]
                          IN  (/\ e.kind = "channel"
                               /\ e.id \in DOMAIN used_map[i]
                               /\ used_map[i][e.id] = u) =>
                                  staging[i].elems[k] = e

\* The report holds a success record for source i whose published file
\* holds the content `file`.
PublishedAs(i, file) ==
    \E k \in DOMAIN report :
        /\ report[k].entry = i
        /\ report[k].error = ""
        /\ \E target \in DOMAIN data_files :
              /\ report[k].raw_url = RawUrl(DATA_DIR \o <<target>>)
              /\ data_files[target] = file

NoUrlTwice == \A i, j \in Tasks : sources[i] = sources[j] => i = j

\* C13: when the rewrite of a feed fails (parse error, or an I/O error while
\* the file is written back), the staging file holds exactly the bytes it
\* held before the rewrite, and the feed is finalized and reported as a
\* success with those bytes.
C13_FailedRewriteKeepsBytes ==
    \A i \in Tasks :
        (rw_result[i].ran /\ ~rw_result[i].ok) =>
            /\ pc = "rewriting" => staging[i] = served[sources[i]]
            /\ (pc \in {"done", "exit1"} /\ NoUrlTwice) =>
                    PublishedAs(i, served[sources[i]])

\* C14: in a daily run that finds the map file missing or not valid JSON,
\* the run is not aborted, no feed is rewritten, and every successfully
\* fetched feed is finalized with its original bytes and reported.
C14_DailyWithoutMap ==
    (mode = "daily" /\ map_file \in {MapAbsent, MapCorrupt}) =>
        /\ pc # "crashed"
        /\ \A i \in Tasks : rewrite[i] = "none" /\ ~rw_result[i].ran
        /\ pc \in {"done", "exit1"} =>
              \A i \in Tasks : fetch[i] = "ok" => PublishedAs(i, served[sources[i]])

\* C15: in a daily run that finds a map file that is valid JSON without one
\* of the fields icon_pool, groups, source_to_group, the run does not abort:
\* no feed is changed, and every entry is finalized and reported.
C15_LackingFieldDegrades ==
    (/\ mode = "daily"
     /\ map_file \notin {MapAbsent, MapCorrupt}
     /\ ~(MapFields \subseteq DOMAIN map_file)) =>
        /\ pc # "crashed"
        /\ \A i \in Tasks : rw_result[i].ran => rw_result[i].ok /\ ~rw_result[i].written
        /\ pc \in {"done", "exit1"} => Len(report) = Len(sources)

\* C16: a full-update run writes the map file exactly once, after every
\* icon-download task has finished and before any rewrite task starts, also
\* when icon downloads failed.
C16_MapWrittenOnce ==
    mode = "full" =>
        /\ map_writes <= 1
        /\ map_writes = 1 =>
              /\ BatchesJoined
              /\ pc \in {"rewrite", "rewriting", "done", "exit1", "crashed"}
        /\ (\E i \in Tasks : rewrite[i] # "none") => map_writes = 1
        /\ Exited => map_writes = 1

\* C17: once the timeout flag of the icon-download phase is set, no further
\* icon download is started, and the run still persists the icon map and
\* finalizes and reports every entry.
C17_TimeoutGraceful ==
    [][/\ timeout_occurred => icon_gets' = icon_gets
       /\ (mode' = "full" /\ timeout_occurred' /\ Exited') =>
             /\ map_writes' = 1
             /\ Len(report') = Len(sources')
    ]_vars

\* The report holds a success record for source i, published under `name`.
PublishedName(i, name) ==
    \E k \in DOMAIN report :
        /\ report[k].entry = i
        /\ report[k].error = ""
        /\ report[k].raw_url = RawUrl(DATA_DIR \o <<JoinDots(name)>>)

\* The name proposed for source i, whose file is published as it was served
\* or rewritten (the framing is the same), and the number of fetched
\* sources before it, in configuration order, with the same proposed name.
ProposedFor(i) == ProposedFilename(sources[i].name, served[sources[i]].gz)
CollisionsBefore(i) ==
    Cardinality({j \in Tasks : j < i /\ fetch[j] = "ok" /\ ProposedFor(j) = ProposedFor(i)})

\* `proposed` with -n put before the extension, the extension being all the
\* suffixes of the name or its last suffix.
Disambiguated(proposed, n) ==
    IF n = 0 THEN {proposed}
    ELSE LET tag == <<"-", ToString(n)>>
             len == Len(proposed)
         IN  {<<proposed[1] \o tag>> \o Tail(proposed),
              SubSeq(proposed, 1, len - 2) \o <<proposed[len - 1] \o tag>> \o <<proposed[len]>>}

\* C18: feeds whose proposed filenames collide are told apart by
\* configuration order: the first keeps the name, the n-th after it gets -n
\* before the extension.
C18_CollisionSuffixes ==
    (/\ pc \in {"done", "exit1"}
     /\ NoUrlTwice
     /\ \A i \in Tasks : rw_result[i].ran => rw_result[i].ok) =>
        \A i \in Tasks :
            fetch[i] = "ok" =>
                \E name \in Disambiguated(ProposedFor(i), CollisionsBefore(i)) :
                    PublishedName(i, name)

\* The internal name the claim gives a gzip feed: the URL's basename with a
\* trailing .gz removed, or with .xml appended only when the basename has no
\* extension at all.
ClaimedInternalName(basename) ==
    IF Len(basename) > 1 /\ basename[Len(basename)] = <<"gz">>
    THEN SubSeq(basename, 1, Len(basename) - 1)
    ELSE IF Len(basename) = 1 THEN basename \o << <<"xml">> >>
    ELSE basename

\* C19: a feed the rewriter has written back has the framing it was served
\* with: a gzip feed is gzip, with header modification time 0 and the
\* internal name derived from the URL's basename; a plain feed is plain.
C19_WriteBackFraming ==
    \A i \in Tasks :
        (pc = "rewriting" /\ rw_result[i].ran /\ rw_result[i].written) =>
            IF served[sources[i]].gz
            THEN /\ staging[i].gz
                 /\ gz_header[i].mtime = 0
                 /\ gz_header[i].filename = ClaimedInternalName(sources[i].name)
            ELSE /\ ~staging[i].gz
                 /\ gz_header[i] = NoHeader

\* The channel elements of a document, at any depth, in document order, and
\* those the channel scan of a full update reads before it stops.
ChannelsOf(feed) == SelectSeq(feed.elems, IsChannel)
ScannedChannelsOf(feed) == Prefix(ChannelsOf(feed), CHANNEL_LIMIT + 1)

\* A channel that carries an id and an icon child with a src.
Mappable(e) == e.id # "" /\ HasSrc(e)

\* The map m holds an entry id -> src for every mappable channel of chans,
\* the last channel of an id giving the src, and no other entry.
MapOfChannels(m, chans) ==
    /\ \A j \in DOMAIN chans : Mappable(chans[j]) => chans[j].id \in DOMAIN m
    /\ \A c \in DOMAIN m :
          \E j \in DOMAIN chans :
              /\ Mappable(chans[j])
              /\ chans[j].id = c
              /\ chans[j].icon = m[c]
              /\ \A k \in DOMAIN chans :
                    (Mappable(chans[k]) /\ chans[k].id = c) => k <= j

MapsBuilt == mode = "full" /\ pc \in {"save", "rewrite", "rewriting", "done", "exit1"}

\* C20: after a full update, the icon map of every group holds an entry for
\* every channel of the representative feed that carries an id and an icon
\* with a src, the last channel of an id winning, and no other entry; every
\* URL of the map is in the global set.
C20_MapCoversEveryChannel ==
    MapsBuilt =>
        \A s \in DOMAIN icon_data.groups :
            LET m == icon_data.groups[s].icon_map
                feed == served[sources[RepresentativeOf(s)]]
            IN  /\ MapOfChannels(m, ChannelsOf(feed))
                /\ \A c \in DOMAIN m : m[c] \in DOMAIN icon_data.icon_pool

\* C20 amended: the same of the channels the scan reads, which are the first
\* CHANNEL_LIMIT + 1 channel elements of the representative feed.
C20_MapCoversScannedChannels ==
    MapsBuilt =>
        \A s \in DOMAIN icon_data.groups :
            LET m == icon_data.groups[s].icon_map
                feed == served[sources[RepresentativeOf(s)]]
            IN  /\ MapOfChannels(m, ScannedChannelsOf(feed))
                /\ \A c \in DOMAIN m : m[c] \in DOMAIN icon_data.icon_pool

\* A full update has built the map of a group whose representative has more
\* channels than the scan reads and, among those read, two channels of one
\* id with different icons: the entry is the icon of the second.
C20_Witness ==
    /\ MapsBuilt
    /\ pc = "rewrite"
    /\ \E s \in DOMAIN icon_data.groups :
          LET m == icon_data.groups[s].icon_map
              feed == served[sources[RepresentativeOf(s)]]
              chans == ScannedChannelsOf(feed)
          IN  /\ Len(ChannelsOf(feed)) > CHANNEL_LIMIT + 1
              /\ \E j, k \in DOMAIN chans :
                    /\ j < k
                    /\ Mappable(chans[j]) /\ Mappable(chans[k])
                    /\ chans[j].id = chans[k].id
                    /\ chans[j].icon # chans[k].icon
                    /\ m[chans[k].id] = chans[k].icon

\* The stages a feed has reached.
IsSigned(i) == i \in signed
IsResolved(i) == rewrite[i] # "none"
IsRewritten(i) == rw_result[i].ran
IsFinalized(i) == raw_url[i] # <<>>
IsReported(i) == \E k \in DOMAIN report : report[k].entry = i
AllReported == pc \in {"done", "exit1"} /\ \A i \in Tasks : IsReported(i)

\* A feed reaches a stage only from the stages before it, and a feed whose
\* fetch failed reaches none of the stages between.
StageOrder ==
    [][\A i \in Tasks :
         /\ (IsSigned(i)' /\ ~IsSigned(i)) =>
               fetch[i] = "ok" /\ ~IsRewritten(i) /\ ~IsFinalized(i) /\ ~IsReported(i)
         /\ (IsResolved(i)' /\ ~IsResolved(i)) =>
               fetch[i] = "ok" /\ ~IsRewritten(i) /\ ~IsFinalized(i) /\ ~IsReported(i)
         /\ (IsRewritten(i)' /\ ~IsRewritten(i)) =>
               fetch[i] = "ok" /\ IsResolved(i) /\ ~IsFinalized(i) /\ ~IsReported(i)
         /\ (IsFinalized(i)' /\ ~IsFinalized(i)) => fetch[i] = "ok" /\ ~IsReported(i)
         /\ (IsReported(i)' /\ ~IsReported(i)) => fetch[i] # "running"
         /\ fetch[i]' = "failed" =>
               ~IsSigned(i)' /\ ~IsResolved(i)' /\ ~IsRewritten(i)' /\ ~IsFinalized(i)'
    ]_vars

\* C21: every configured feed is eventually reported; a fetched feed reaches
\* its stages only in the order fetched, signed or group-resolved,
\* rewritten, finalized, reported, and a feed whose fetch failed reaches
\* none of the stages between.
C21_EveryFeedReported == <>AllReported /\ StageOrder

\* The pool paths an icon-download task that is still running writes to.
BatchPaths(b) == {PoolPath(batches[b][k]) : k \in DOMAIN batches[b]}

\* C22: no two concurrently running tasks write to the same path: running
\* fetch tasks have distinct temporary files, running icon-download tasks
\* disjoint pool paths, running rewrite tasks distinct feed files.
C22_NoSharedPath ==
    /\ \A i, j \in Tasks :
          (i # j /\ fetch[i] = "running" /\ fetch[j] = "running") =>
              temp_path[i] # temp_path[j]
    /\ \A b, c \in DOMAIN batches :
          (b # c /\ ~bdone[b] /\ ~bdone[c]) => BatchPaths(b) \cap BatchPaths(c) = {}
    /\ \A i, j \in Tasks :
          (i # j /\ rewrite[i] = "running" /\ rewrite[j] = "running") =>
              temp_path[i] # temp_path[j]

\* The path under which the report publishes a file of data/.
PublishedAt(name) == RawUrl(DATA_DIR \o <<name>>)

\* C23: when finalization ends, the success records of the report carry
\* pairwise distinct published names, and every feed renamed in it is found
\* in data/ under its own name with the bytes of its own file: no rename
\* has replaced the file of another feed.
C23_DistinctPublishedNames ==
    [][(pc = "rewriting" /\ pc' \in {"done", "exit1"}) =>
          /\ \A k, l \in DOMAIN report' :
                (k # l /\ report'[k].error = "" /\ report'[l].error = "") =>
                    report'[k].raw_url # report'[l].raw_url
          /\ \A i \in Tasks :
                raw_url'[i] # <<>> =>
                    \E name \in DOMAIN data_files' :
                        /\ raw_url'[i] = PublishedAt(name)
                        /\ data_files'[name] = staging[i]
    ]_vars

\* Two feeds named guide.xml and a third named guide-1.xml, the name
\* generated for the second: all three are published, the third under
\* guide-1-1.xml.
C23_Witness ==
    /\ pc = "done"
    /\ sources = <<Url1, Url2, Url5>>
    /\ PublishedName(1, GuideXml)
    /\ PublishedName(2, Guide1Xml)
    /\ PublishedName(3, SuffixedName(Guide1Xml, 1))
    /\ Cardinality(DOMAIN data_files) = Cardinality(MirrorUrls)

\* The references of an icon map stay inside it: a source is mapped to None
\* or to a group of the map, and the icon URLs of the groups are in the pool.
ReferentiallyClosed(data) ==
    /\ \A url \in DOMAIN data.source_to_group :
          data.source_to_group[url] # None =>
              data.source_to_group[url] \in DOMAIN data.groups
    /\ \A s \in DOMAIN data.groups :
          \A c \in DOMAIN data.groups[s].icon_map :
              data.groups[s].icon_map[c] \in DOMAIN data.icon_pool

\* C24: the icon map a full update returns, and the one it has written to
\* the map file, are referentially closed, whatever failed on the way.
C24_MapClosed ==
    mode = "full" =>
        /\ icon_data # NoIconData => ReferentiallyClosed(icon_data)
        /\ map_file \notin {MapAbsent, MapCorrupt} =>
              ReferentiallyClosed(DecodeIconData(map_file))

\* A full update has ended and saved its map: one fetched feed lost its
\* group to a parse error, another group has icons, an icon download failed.
C24_Witness ==
    /\ mode = "full"
    /\ pc = "done"
    /\ map_file = EncodeIconData(icon_data)
    /\ \E i \in Tasks : fetch[i] = "ok" /\ sources[i] \notin DOMAIN icon_data.source_to_group
    /\ \E s \in DOMAIN icon_data.groups : icon_data.groups[s].icon_map # EmptyDict
    /\ icon_failed # {}

====
